---- MODULE Spec2Model ----
(***************************************************************************)
(* A model of lsst.sims.coordUtils.Astrometry (AstrometryBase and its two  *)
(* mixins) and of the chip-name lookup functions exercised by              *)
(* tests/testCameraUtils.py.                                               *)
(*                                                                         *)
(* Numbers are integers in units of 1e-10 (radians, radians/year,          *)
(* arcseconds, km/s); epochs and dates are whole years and days.  Every    *)
(* Python value is a tagged tuple: Num(n) for a float, None for None, and  *)
(* PalRet(call, k) for the k-th output of a call into the PAL library,     *)
(* which is kept uninterpreted: the model follows what is handed to the    *)
(* library and where its outputs go, not the astronomy.                    *)
(***************************************************************************)
EXTENDS Integers, Sequences, FiniteSets, TLC

VARIABLES site, obs_metadata, db_obj, columns, call, after, palLog, result

vars == <<site, obs_metadata, db_obj, columns, call, after, palLog, result>>

(* ------------------------------ bounds --------------------------------- *)

\* the longest catalog (number of rows) explored
MaxLen == 2

(* ------------------------------ values --------------------------------- *)

None == <<"None">>

Num(n) == <<"num", n>>

\* numpy.abs / math.fabs of a float
Abs_SignKept(x) == x

Abs(x) == IF x[2] < 0 THEN Num(0 - x[2]) ELSE x

\* a > b on floats
Gt(x, n) == x[2] > n

\* numpy.zeros(n)
zeros(n) == [i \in 1..n |-> Num(0)]

\* an optional array argument: None (the default) or an array
NoArray == [given |-> FALSE, a |-> <<>>]

Some(a) == [given |-> TRUE, a |-> a]

(* --------------------------- the PAL library --------------------------- *)

\* the k-th value a library call returns (k = 0 for a single value)
PalRet(c, k) == <<"ret", k, c>>

\* palpy's routines take C doubles: handed None they raise a TypeError that
\* names no parameter of the caller
PalAccepts(c) == \A j \in 2..Len(c) : c[j] # None

(* ----------------------------- outcomes -------------------------------- *)

\* a function either returns a value or raises; pal is the sequence of
\* library calls it made on the way.  An exception carries its type, the
\* names its message spells out (words) and the numbers formatted into it
Return(v, log) == [kind |-> "return", val |-> v, pal |-> log]

Raise(type, words, nums, log) ==
    [kind |-> "raise", type |-> type, words |-> words, nums |-> nums, pal |-> log]

Idle == [kind |-> "none"]

\* the TypeError of a library routine handed None
PalTypeError(log) == Raise("TypeError", {"a float is required"}, <<>>, log)

\* the IndexError of a[i] past the end of a (Python index i - 1)
IndexError(i, size, log) ==
    Raise("IndexError", {"index", "out of bounds"}, <<i - 1, size>>, log)

(* -------------------------- program constants -------------------------- *)

\* pm_tol = 1.0e-9
pm_tol == 10

\* EPSILON = 1.e-10
EPSILON == 1

\* the parallax below which pal.pm does not work: 0.00045 arcsec
ParallaxFloor == 4500000

\* dut = 0.3, the assumed UT1 - UTC, in tenths of a second
dut == Num(3)

\* the default wavelength = 5000.
DefaultWavelength == Num(5000)

(* ------------------------ applyMeanApparentPlace ----------------------- *)

\* one pass of the loop over positions, from index i on
RECURSIVE MeanApparentLoop(_, _, _, _, _, _, _, _, _, _)
MeanApparentLoop(i, ra, dec, pm_ra, pm_dec, parallax, v_rad, prms, out, log) ==
    IF i > Len(ra) THEN Return(<<out.raOut, out.decOut>>, log)
    ELSE IF i > Len(pm_ra) THEN IndexError(i, Len(pm_ra), log)
    ELSE IF ~Gt(Abs(pm_ra[i]), pm_tol) /\ i > Len(pm_dec)
         THEN IndexError(i, Len(pm_dec), log)
    ELSE IF ~Gt(Abs(pm_ra[i]), pm_tol) /\ ~Gt(Abs(pm_dec[i]), pm_tol)
            /\ i > Len(parallax)
         THEN IndexError(i, Len(parallax), log)
    ELSE IF ~Gt(Abs(pm_ra[i]), pm_tol) /\ ~Gt(Abs(pm_dec[i]), pm_tol)
            /\ ~Gt(Abs(parallax[i]), pm_tol) /\ i > Len(v_rad)
         THEN IndexError(i, Len(v_rad), log)
    ELSE LET moving == \/ Gt(Abs(pm_ra[i]), pm_tol)
                       \/ Gt(Abs(pm_dec[i]), pm_tol)
                       \/ Gt(Abs(parallax[i]), pm_tol)
                       \/ Gt(Abs(v_rad[i]), pm_tol)
         IN IF moving /\ i > Len(pm_dec) THEN IndexError(i, Len(pm_dec), log)
            ELSE IF moving /\ i > Len(parallax)
                 THEN IndexError(i, Len(parallax), log)
            ELSE IF moving /\ i > Len(v_rad) THEN IndexError(i, Len(v_rad), log)
            ELSE LET c == IF moving
                          THEN <<"mapqk", ra[i], dec[i], pm_ra[i], pm_dec[i],
                                 parallax[i], v_rad[i], prms>>
                          ELSE <<"mapqkz", ra[i], dec[i], prms>>
                 IN IF ~PalAccepts(c) THEN PalTypeError(Append(log, c))
                    ELSE MeanApparentLoop(i + 1, ra, dec, pm_ra, pm_dec,
                            parallax, v_rad, prms,
                            [raOut  |-> [out.raOut  EXCEPT ![i] = PalRet(c, 0)],
                             decOut |-> [out.decOut EXCEPT ![i] = PalRet(c, 1)]],
                            Append(log, c))

\* the guard of the length check: len(ra) != len(dec)
LengthsDiffer_OnlyShorterDec(ra, dec) == Len(ra) > Len(dec)

LengthsDiffer(ra, dec) == Len(ra) # Len(dec)

applyMeanApparentPlace(ra, dec, pm_ra, pm_dec, parallax, v_rad, Epoch0, MJD) ==
    IF LengthsDiffer(ra, dec)
    THEN Raise("ValueError",
               {"Astrometry.py", "applyMeanApparentPlace", "len", "ra", "dec"},
               <<Len(ra), Len(dec)>>, <<>>)
    ELSE LET pmr == IF ~pm_ra.given THEN zeros(Len(ra)) ELSE pm_ra.a
             pmd == IF ~pm_dec.given THEN zeros(Len(ra)) ELSE pm_dec.a
             rv  == IF ~v_rad.given THEN zeros(Len(ra)) ELSE v_rad.a
             px  == IF ~parallax.given THEN zeros(Len(ra)) ELSE parallax.a
             c   == <<"mappa", Epoch0, MJD>>
         IN IF ~PalAccepts(c) THEN PalTypeError(<<c>>)
            ELSE MeanApparentLoop(1, ra, dec, pmr, pmd, px, rv, PalRet(c, 0),
                                  [raOut |-> zeros(Len(ra)), decOut |-> zeros(Len(ra))],
                                  <<c>>)

(* -------------------------- applyProperMotion -------------------------- *)

\* the first loop: every parallax below the floor is overwritten in place
ClampParallax_OnlyNonPositive(parallax) ==
    [i \in 1..Len(parallax) |->
        IF parallax[i][2] <= 0 THEN Num(ParallaxFloor) ELSE parallax[i]]

ClampParallax(parallax) ==
    [i \in 1..Len(parallax) |->
        IF parallax[i][2] < ParallaxFloor THEN Num(ParallaxFloor) ELSE parallax[i]]

\* the end epoch handed to pal.pm
EndEpochDate(MJD, metadata_mjd) == metadata_mjd

RECURSIVE ProperMotionLoop(_, _, _, _, _, _, _, _, _, _, _)
ProperMotionLoop(i, ra, dec, pm_ra, pm_dec, parallax, v_rad, EP0, julianEpoch, out, log) ==
    IF i > Len(ra) THEN Return(<<out.raOut, out.decOut>>, log)
    ELSE IF i > Len(pm_ra) THEN IndexError(i, Len(pm_ra), log)
    ELSE IF ~Gt(Abs(pm_ra[i]), EPSILON) /\ i > Len(pm_dec)
         THEN IndexError(i, Len(pm_dec), log)
    ELSE IF i > Len(dec) THEN IndexError(i, Len(dec), log)
    ELSE IF Gt(Abs(pm_ra[i]), EPSILON) \/ Gt(Abs(pm_dec[i]), EPSILON)
    THEN IF i > Len(pm_dec) THEN IndexError(i, Len(pm_dec), log)
         ELSE IF i > Len(parallax) THEN IndexError(i, Len(parallax), log)
         ELSE IF i > Len(v_rad) THEN IndexError(i, Len(v_rad), log)
         ELSE LET c == <<"pm", ra[i], dec[i], pm_ra[i],
                         <<"div", pm_dec[i], <<"cos", dec[i]>> >>,
                         parallax[i], v_rad[i], EP0, julianEpoch>>
              IN IF ~PalAccepts(c) THEN PalTypeError(Append(log, c))
                 ELSE ProperMotionLoop(i + 1, ra, dec, pm_ra, pm_dec, parallax,
                         v_rad, EP0, julianEpoch,
                         [raOut  |-> [out.raOut  EXCEPT ![i] = PalRet(c, 0)],
                          decOut |-> [out.decOut EXCEPT ![i] = PalRet(c, 1)]],
                         Append(log, c))
    ELSE ProperMotionLoop(i + 1, ra, dec, pm_ra, pm_dec, parallax, v_rad, EP0,
            julianEpoch,
            [raOut  |-> [out.raOut  EXCEPT ![i] = ra[i]],
             decOut |-> [out.decOut EXCEPT ![i] = dec[i]]],
            log)

\* the outcome, and the caller's parallax array as the call leaves it
applyProperMotion(ra, dec, pm_ra, pm_dec, parallax, v_rad, EP0, MJD) ==
    LET px == ClampParallax(parallax)
        c  == <<"epj", EndEpochDate(MJD, obs_metadata.mjd)>>
    IN [parallax |-> px,
        out |-> IF ~PalAccepts(c) THEN PalTypeError(<<c>>)
                ELSE ProperMotionLoop(1, ra, dec, pm_ra, pm_dec, px, v_rad, EP0,
                        PalRet(c, 0),
                        [raOut |-> zeros(Len(ra)), decOut |-> zeros(Len(ra))],
                        <<c>>)]

(* ----------------- applyPrecession and the galactic frame -------------- *)

\* sphericalToCartesian, the rotation by rmat and cartesianToSpherical, all
\* element by element on arrays of one length
applyPrecession(ra, dec, EP0, MJD) ==
    LET c1 == <<"epj", MJD>>
        c2 == <<"prenut", EP0, PalRet(c1, 0)>>
        xyz(i) == <<"dot", PalRet(c2, 0), <<"sphericalToCartesian", ra[i], dec[i]>> >>
    IN IF ~PalAccepts(c1) THEN PalTypeError(<<c1>>)
       ELSE IF ~PalAccepts(c2) THEN PalTypeError(<<c1, c2>>)
       ELSE Return(<< [i \in 1..Len(ra) |-> <<"longitude", xyz(i)>>],
                      [i \in 1..Len(ra) |-> <<"latitude", xyz(i)>>] >>,
                   <<c1, c2>>)

\* the loop of equatorialToGalactic (routine "eqgal") and of
\* galacticToEquatorial (routine "galeq"): one library call per element
RECURSIVE FrameLoop(_, _, _, _, _, _)
FrameLoop(routine, i, a, b, out, log) ==
    IF i > Len(a) THEN Return(<<out.first, out.second>>, log)
    ELSE IF i > Len(b) THEN IndexError(i, Len(b), log)
    ELSE LET c == <<routine, a[i], b[i]>>
         IN FrameLoop(routine, i + 1, a, b,
                [first  |-> [out.first  EXCEPT ![i] = PalRet(c, 0)],
                 second |-> [out.second EXCEPT ![i] = PalRet(c, 1)]],
                Append(log, c))

equatorialToGalactic(ra, dec) ==
    FrameLoop("eqgal", 1, ra, dec,
              [first |-> zeros(Len(ra)), second |-> zeros(Len(ra))], <<>>)

galacticToEquatorial(gLong, gLat) ==
    FrameLoop("galeq", 1, gLong, gLat,
              [first |-> zeros(Len(gLong)), second |-> zeros(Len(gLong))], <<>>)

(* ------------------------ applyMeanObservedPlace ----------------------- *)

\* the arguments of pal.aoppa
SiteParameters_HumidityKept(MJD, includeRefraction, wavelength) ==
    <<"aoppa", MJD, dut, site.longitude, site.latitude, site.height,
      site.xPolar, site.yPolar, site.meanTemperature,
      IF includeRefraction THEN site.meanPressure ELSE Num(0),
      site.meanHumidity, wavelength, site.lapseRate>>

SiteParameters(MJD, includeRefraction, wavelength) ==
    <<"aoppa", MJD, dut, site.longitude, site.latitude, site.height,
      site.xPolar, site.yPolar, site.meanTemperature,
      IF includeRefraction THEN site.meanPressure ELSE Num(0),
      IF includeRefraction THEN site.meanHumidity ELSE Num(0),
      wavelength, site.lapseRate>>

\* which outputs of pal.aopqk (azimuth, zenith distance, hour angle,
\* declination, right ascension) become raOut[i] and decOut[i]
ObservedDecIndex == 3

ObservedRaIndex_Declination == ObservedDecIndex

ObservedRaIndex == 4

RECURSIVE MeanObservedLoop(_, _, _, _, _, _, _)
MeanObservedLoop(i, ra, dec, obsPrms, altAzHr, out, log) ==
    IF i > Len(ra)
    THEN IF ~altAzHr THEN Return(<<out.raOut, out.decOut>>, log)
         ELSE Return(<<out.raOut, out.decOut, out.alt, out.az>>, log)
    ELSE IF i > Len(dec) THEN IndexError(i, Len(dec), log)
    ELSE LET c         == <<"aopqk", ra[i], dec[i], obsPrms>>
             hourAngle == PalRet(c, 2)
             raO       == PalRet(c, ObservedRaIndex)
             decO      == PalRet(c, ObservedDecIndex)
             h         == <<"de2h", hourAngle, decO, site.latitude>>
         IN IF ~PalAccepts(c) THEN PalTypeError(Append(log, c))
            ELSE MeanObservedLoop(i + 1, ra, dec, obsPrms, altAzHr,
                    [raOut  |-> [out.raOut  EXCEPT ![i] = raO],
                     decOut |-> [out.decOut EXCEPT ![i] = decO],
                     alt    |-> IF altAzHr THEN [out.alt EXCEPT ![i] = PalRet(h, 1)]
                                ELSE out.alt,
                     az     |-> IF altAzHr THEN [out.az EXCEPT ![i] = PalRet(h, 0)]
                                ELSE out.az],
                    IF altAzHr THEN log \o <<c, h>> ELSE Append(log, c))

applyMeanObservedPlace(ra, dec, MJD, includeRefraction, altAzHr, wavelength) ==
    LET c == SiteParameters(MJD, includeRefraction, wavelength)
    IN IF ~PalAccepts(c) THEN PalTypeError(<<c>>)
       ELSE MeanObservedLoop(1, ra, dec, PalRet(c, 0), altAzHr,
               [raOut |-> zeros(Len(ra)), decOut |-> zeros(Len(ra)),
                alt |-> IF altAzHr THEN zeros(Len(ra)) ELSE <<>>,
                az  |-> IF altAzHr THEN zeros(Len(ra)) ELSE <<>>],
               <<c>>)

(* ------------------------- the catalog object -------------------------- *)

\* self.site: the observatory's parameters, each a value of its own
Site ==
    [f \in {"longitude", "latitude", "height", "xPolar", "yPolar",
            "meanTemperature", "meanPressure", "meanHumidity", "lapseRate"}
       |-> <<"site", f>>]

\* the proper motion in RA and Dec, parallax and radial velocity of a row:
\* at rest; moving, with a parallax below 0.00045 arcsec; moving and nearby;
\* every component exactly at pm_tol
Profiles ==
    { <<0, 0, 0, 0>>, <<20, 30, 40, 50>>, <<20, 0, 5000000, 50>>,
      <<10, 0 - 10, 10, 0 - 10>> }

\* the catalog whose rows move as ps says; row i has coordinates of its own
Catalog(ps) ==
    [raJ2000         |-> [i \in 1..Len(ps) |-> Num(1000 + i)],
     decJ2000        |-> [i \in 1..Len(ps) |-> Num(2000 + i)],
     raObserved      |-> [i \in 1..Len(ps) |-> Num(3000 + i)],
     decObserved     |-> [i \in 1..Len(ps) |-> Num(4000 + i)],
     properMotionRa  |-> [i \in 1..Len(ps) |-> Num(ps[i][1])],
     properMotionDec |-> [i \in 1..Len(ps) |-> Num(ps[i][2])],
     parallax        |-> [i \in 1..Len(ps) |-> Num(ps[i][3])],
     radialVelocity  |-> [i \in 1..Len(ps) |-> Num(ps[i][4])]]

Catalogs ==
    UNION { { Catalog(ps) : ps \in [1..n -> Profiles] } : n \in 0..MaxLen }

\* self.column_by_name(name)
column_by_name(name) == columns[name]

\* obs_metadata.metadata, a dict: the pointing is always there, the rotation
\* angle may be absent, None or a number
Pointing ==
    [k \in {"Unrefracted_RA", "Unrefracted_Dec"} |->
        IF k = "Unrefracted_RA" THEN Num(25) ELSE Num(112)]

Metadatas ==
    { Pointing,
      [k \in DOMAIN Pointing \cup {"Opsim_rotskypos"} |->
          IF k = "Opsim_rotskypos" THEN None ELSE Pointing[k]],
      [k \in DOMAIN Pointing \cup {"Opsim_rotskypos"} |->
          IF k = "Opsim_rotskypos" THEN Num(35) ELSE Pointing[k]] }

\* the dates and epochs of the calls
Dates == { Num(51544), Num(57000) }

(* ------------------ correctCoordinates and the getters ----------------- *)

\* ra_out * degPerRadian, element by element
InDegrees_LeftInRadians(a) == a

InDegrees(a) == [i \in 1..Len(a) |-> <<"mul", a[i], "180.0/numpy.pi">>]

correctCoordinates(pm_ra, pm_dec, parallax, v_rad, includeRefraction, inDegrees) ==
    LET ra  == column_by_name("raJ2000")
        dec == column_by_name("decJ2000")
        ep0 == db_obj.epoch
        mjd == obs_metadata.mjd
        apparent == applyMeanApparentPlace(ra, dec, pm_ra, pm_dec, parallax,
                                           v_rad, ep0, mjd)
    IN IF apparent.kind = "raise" THEN apparent
       ELSE LET observed == applyMeanObservedPlace(apparent.val[1], apparent.val[2],
                                mjd, includeRefraction, FALSE, DefaultWavelength)
                log == apparent.pal \o observed.pal
            IN IF observed.kind = "raise" THEN [observed EXCEPT !.pal = log]
               ELSE IF inDegrees
                    THEN Return(<<InDegrees(observed.val[1]),
                                  InDegrees(observed.val[2])>>, log)
                    ELSE Return(<<observed.val[1], observed.val[2]>>, log)

\* the rotation of a tangent-plane point by theta
Rotated(x, y, theta) ==
    << <<"sub", <<"mul", x, <<"cos", theta>> >>, <<"mul", y, <<"sin", theta>> >> >>,
       <<"add", <<"mul", x, <<"sin", theta>> >>, <<"mul", y, <<"cos", theta>> >> >> >>

RECURSIVE FocalPlaneLoop(_, _, _, _, _, _, _, _)
FocalPlaneLoop(i, ra_in, dec_in, trueRA, trueDec, theta, out, log) ==
    IF i > Len(ra_in) THEN Return(<<out.x_out, out.y_out>>, log)
    ELSE IF i > Len(dec_in) THEN IndexError(i, Len(dec_in), log)
    ELSE LET c == <<"ds2tp", ra_in[i], dec_in[i], trueRA[1], trueDec[1]>>
             xy == Rotated(PalRet(c, 0), PalRet(c, 1), theta)
         IN IF theta = None
            THEN Raise("AttributeError", {"NoneType", "cos"}, <<>>, Append(log, c))
            ELSE FocalPlaneLoop(i + 1, ra_in, dec_in, trueRA, trueDec, theta,
                    [x_out |-> [out.x_out EXCEPT ![i] = xy[1]],
                     y_out |-> [out.y_out EXCEPT ![i] = xy[2]]],
                    Append(log, c))

get_skyToFocalPlane ==
    LET ra_in  == column_by_name("raObserved")
        dec_in == column_by_name("decObserved")
        meta   == obs_metadata.metadata
    IN IF "Opsim_rotskypos" \notin DOMAIN meta
       THEN Raise("KeyError", {"Opsim_rotskypos"}, <<>>, <<>>)
       ELSE LET theta == meta["Opsim_rotskypos"]
                inRA  == <<meta["Unrefracted_RA"]>>
                inDec == <<meta["Unrefracted_Dec"]>>
                apparent == applyMeanApparentPlace(inRA, inDec, NoArray, NoArray,
                                NoArray, NoArray, db_obj.epoch, obs_metadata.mjd)
            IN IF apparent.kind = "raise" THEN apparent
               ELSE LET observed == applyMeanObservedPlace(apparent.val[1],
                                       apparent.val[2], obs_metadata.mjd, TRUE,
                                       FALSE, DefaultWavelength)
                        log == apparent.pal \o observed.pal
                    IN IF observed.kind = "raise"
                       THEN [observed EXCEPT !.pal = log]
                       ELSE FocalPlaneLoop(1, ra_in, dec_in, observed.val[1],
                               observed.val[2], theta,
                               [x_out |-> zeros(Len(ra_in)),
                                y_out |-> zeros(Len(ra_in))],
                               log)

\* AstrometryGalaxies
Galaxies_get_trimCoordinates ==
    correctCoordinates(NoArray, NoArray, NoArray, NoArray, FALSE, TRUE)

Galaxies_get_observedCoordinates ==
    correctCoordinates(NoArray, NoArray, NoArray, NoArray, TRUE, TRUE)

\* AstrometryStars
correctStellarCoordinates_ParallaxAsPmDec(includeRefraction) ==
    LET pr == column_by_name("properMotionRa")
        pd == column_by_name("properMotionDec")
        px == column_by_name("parallax")
        rv == column_by_name("radialVelocity")
    IN correctCoordinates(Some(pr), Some(px), Some(pd), Some(rv),
                          includeRefraction, TRUE)

correctStellarCoordinates(includeRefraction) ==
    LET pr == column_by_name("properMotionRa")
        pd == column_by_name("properMotionDec")
        px == column_by_name("parallax")
        rv == column_by_name("radialVelocity")
    IN correctCoordinates(Some(pr), Some(pd), Some(px), Some(rv),
                          includeRefraction, TRUE)

Stars_get_trimCoordinates == correctStellarCoordinates(FALSE)

Stars_get_observedCoordinates == correctStellarCoordinates(TRUE)

(* ------------------------------ the calls ------------------------------ *)

Init ==
    /\ site = Site
    /\ obs_metadata \in [mjd : {None, Num(57000)}, metadata : Metadatas]
    /\ db_obj \in [epoch : {None, Num(2000)}]
    /\ columns \in Catalogs
    /\ call = [op |-> "none"]
    /\ after = << >>
    /\ palLog = << >>
    /\ result = Idle

\* a call ends: call holds its arguments and the arrays among them as they
\* were handed in, after the same arrays as the call left them, palLog the
\* library calls it made and result what it returned or raised
Finish(op, args, arrays, left, out) ==
    /\ call' = [op |-> op, args |-> args, arrays |-> arrays]
    /\ after' = left
    /\ palLog' = out.pal
    /\ result' = [f \in DOMAIN out \ {"pal"} |-> out[f]]
    /\ UNCHANGED <<site, obs_metadata, db_obj, columns>>

\* an array of the caller with one element dropped (d = -1), as it is
\* (d = 0) or with one more (d = 1)
Resize(a, d) ==
    IF d = 0 THEN a
    ELSE IF d = 1 THEN Append(a, Num(0))
    ELSE SubSeq(a, 1, Len(a) - 1)

\* which one array of a call has a length other than len(ra), and by how much
Offsets ==
    { [arr |-> "none", d |-> 0] }
      \cup [arr : {"dec", "pm_ra", "pm_dec", "parallax", "v_rad"}, d : {0 - 1, 1}]

Sized(name, a, off) == Resize(a, IF off.arr = name THEN off.d ELSE 0)

\* which of the optional arrays the caller hands in
Givens ==
    { {"pm_ra", "pm_dec", "parallax", "v_rad"}, {},
      {"pm_dec", "parallax", "v_rad"}, {"pm_ra", "parallax", "v_rad"},
      {"pm_ra", "pm_dec", "v_rad"}, {"pm_ra", "pm_dec", "parallax"} }

Optional(name, a, given) == IF name \in given THEN Some(a) ELSE NoArray

\* the arrays of a call, by parameter name
ArraysOf(args) ==
    [k \in DOMAIN args \cap {"ra", "dec", "pm_ra", "pm_dec", "parallax", "v_rad"}
       |-> args[k]]

Call_applyMeanApparentPlace ==
    /\ call.op = "none"
    /\ \E off \in Offsets, given \in Givens, MJD \in Dates :
         /\ off.arr \in given \cup {"none", "dec"}
         /\ off.d = 0 - 1 => Len(columns.raJ2000) > 0
         /\ LET args ==
                  [ra       |-> columns.raJ2000,
                   dec      |-> Sized("dec", columns.decJ2000, off),
                   pm_ra    |-> Optional("pm_ra",
                                  Sized("pm_ra", columns.properMotionRa, off), given),
                   pm_dec   |-> Optional("pm_dec",
                                  Sized("pm_dec", columns.properMotionDec, off), given),
                   parallax |-> Optional("parallax",
                                  Sized("parallax", columns.parallax, off), given),
                   v_rad    |-> Optional("v_rad",
                                  Sized("v_rad", columns.radialVelocity, off), given),
                   Epoch0   |-> Num(2000),
                   MJD      |-> MJD]
            IN Finish("applyMeanApparentPlace", args, ArraysOf(args), ArraysOf(args),
                      applyMeanApparentPlace(args.ra, args.dec, args.pm_ra,
                          args.pm_dec, args.parallax, args.v_rad,
                          args.Epoch0, args.MJD))

Call_applyProperMotion ==
    /\ call.op = "none"
    /\ \E off \in Offsets, MJD \in Dates :
         /\ off.d = 0 - 1 => Len(columns.raJ2000) > 0
         /\ LET args ==
                  [ra       |-> columns.raJ2000,
                   dec      |-> Sized("dec", columns.decJ2000, off),
                   pm_ra    |-> Sized("pm_ra", columns.properMotionRa, off),
                   pm_dec   |-> Sized("pm_dec", columns.properMotionDec, off),
                   parallax |-> Sized("parallax", columns.parallax, off),
                   v_rad    |-> Sized("v_rad", columns.radialVelocity, off),
                   EP0      |-> Num(2000),
                   MJD      |-> MJD]
                r == applyProperMotion(args.ra, args.dec, args.pm_ra, args.pm_dec,
                                       args.parallax, args.v_rad, args.EP0, args.MJD)
            IN Finish("applyProperMotion", args, ArraysOf(args),
                      [ArraysOf(args) EXCEPT !.parallax = r.parallax], r.out)

Call_applyMeanObservedPlace ==
    /\ call.op = "none"
    /\ \E d \in {0 - 1, 0, 1}, MJD \in Dates, includeRefraction \in BOOLEAN,
          altAzHr \in BOOLEAN :
         /\ d = 0 - 1 => Len(columns.raJ2000) > 0
         /\ LET args ==
                  [ra  |-> columns.raJ2000,
                   dec |-> Resize(columns.decJ2000, d),
                   MJD |-> MJD,
                   includeRefraction |-> includeRefraction,
                   altAzHr |-> altAzHr,
                   wavelength |-> DefaultWavelength]
            IN Finish("applyMeanObservedPlace", args, ArraysOf(args), ArraysOf(args),
                      applyMeanObservedPlace(args.ra, args.dec, args.MJD,
                          args.includeRefraction, args.altAzHr, args.wavelength))

Call_applyPrecession ==
    /\ call.op = "none"
    /\ \E MJD \in Dates :
         LET args == [ra |-> columns.raJ2000, dec |-> columns.decJ2000,
                      EP0 |-> Num(2000), MJD |-> MJD]
         IN Finish("applyPrecession", args, ArraysOf(args), ArraysOf(args),
                   applyPrecession(args.ra, args.dec, args.EP0, args.MJD))

Call_equatorialToGalactic ==
    /\ call.op = "none"
    /\ \E d \in {0 - 1, 0, 1} :
         /\ d = 0 - 1 => Len(columns.raJ2000) > 0
         /\ LET args == [ra |-> columns.raJ2000,
                         dec |-> Resize(columns.decJ2000, d)]
            IN Finish("equatorialToGalactic", args, ArraysOf(args), ArraysOf(args),
                      equatorialToGalactic(args.ra, args.dec))

Call_galacticToEquatorial ==
    /\ call.op = "none"
    /\ \E d \in {0 - 1, 0, 1} :
         /\ d = 0 - 1 => Len(columns.raJ2000) > 0
         /\ LET args == [gLong |-> columns.raJ2000,
                         gLat |-> Resize(columns.decJ2000, d)]
            IN Finish("galacticToEquatorial", args, args, args,
                      galacticToEquatorial(args.gLong, args.gLat))

Call_correctCoordinates ==
    /\ call.op = "none"
    /\ \E given \in Givens, includeRefraction \in BOOLEAN, inDegrees \in BOOLEAN :
         LET args ==
               [pm_ra    |-> Optional("pm_ra", columns.properMotionRa, given),
                pm_dec   |-> Optional("pm_dec", columns.properMotionDec, given),
                parallax |-> Optional("parallax", columns.parallax, given),
                v_rad    |-> Optional("v_rad", columns.radialVelocity, given),
                includeRefraction |-> includeRefraction,
                inDegrees |-> inDegrees]
         IN Finish("correctCoordinates", args, ArraysOf(args), ArraysOf(args),
                   correctCoordinates(args.pm_ra, args.pm_dec, args.parallax,
                       args.v_rad, args.includeRefraction, args.inDegrees))

Call_get_skyToFocalPlane ==
    /\ call.op = "none"
    /\ Finish("get_skyToFocalPlane", << >>, << >>, << >>, get_skyToFocalPlane)

Call_Galaxies_get_trimCoordinates ==
    /\ call.op = "none"
    /\ Finish("AstrometryGalaxies.get_trimCoordinates", << >>, << >>, << >>,
              Galaxies_get_trimCoordinates)

Call_Galaxies_get_observedCoordinates ==
    /\ call.op = "none"
    /\ Finish("AstrometryGalaxies.get_observedCoordinates", << >>, << >>, << >>,
              Galaxies_get_observedCoordinates)

Call_Stars_get_trimCoordinates ==
    /\ call.op = "none"
    /\ Finish("AstrometryStars.get_trimCoordinates", << >>, << >>, << >>,
              Stars_get_trimCoordinates)

Call_Stars_get_observedCoordinates ==
    /\ call.op = "none"
    /\ Finish("AstrometryStars.get_observedCoordinates", << >>, << >>, << >>,
              Stars_get_observedCoordinates)

Next ==
    \/ Call_applyPrecession
    \/ Call_applyProperMotion
    \/ Call_equatorialToGalactic
    \/ Call_galacticToEquatorial
    \/ Call_applyMeanApparentPlace
    \/ Call_applyMeanObservedPlace
    \/ Call_correctCoordinates
    \/ Call_get_skyToFocalPlane
    \/ Call_Galaxies_get_trimCoordinates
    \/ Call_Galaxies_get_observedCoordinates
    \/ Call_Stars_get_trimCoordinates
    \/ Call_Stars_get_observedCoordinates

Spec == Init /\ [][Next]_vars

(* ----------------------- the chip-name functions ----------------------- *)
(* findChipNameFromPupilCoords, findChipNameFromRaDec and                  *)
(* _findChipNameFromRaDec, as tests/testCameraUtils.py and the error       *)
(* handling design describe them: the validation of the arguments, in the  *)
(* order the test exercises it, then the lookup.                           *)

\* a coordinate argument: a numpy array or a Python list
NdArray(a) == [type |-> "ndarray", a |-> a]

PyList(a) == [type |-> "list", a |-> a]

\* an optional ObservationMetaData argument
NoObs == [given |-> FALSE, mjd |-> None, rotSkyPos |-> None]

Obs(mjd, rotSkyPos) == [given |-> TRUE, mjd |-> mjd, rotSkyPos |-> rotSkyPos]

RuntimeError(words) == Raise("RuntimeError", words, <<>>, <<>>)

Passed == [kind |-> "ok"]

\* the checks on the coordinate arguments and the camera; xName and yName
\* are what the message calls the two arguments
CoordinateChecks_CameraFirst(xName, yName, x, y, camera) ==
    IF camera = None
    THEN RuntimeError({"No camera defined", "findChipName"})
    ELSE IF x.type # "ndarray" \/ y.type # "ndarray"
    THEN RuntimeError({"numpy arrays", xName, yName, "findChipName"})
    ELSE IF Len(x.a) # Len(y.a)
    THEN Raise("RuntimeError", {xName, yName, "findChipName"},
               <<Len(x.a), Len(y.a)>>, <<>>)
    ELSE Passed

CoordinateChecks_OnlyLongerX(xName, yName, x, y, camera) ==
    IF x.type # "ndarray" \/ y.type # "ndarray"
    THEN RuntimeError({"numpy arrays", xName, yName, "findChipName"})
    ELSE IF Len(x.a) > Len(y.a)
    THEN Raise("RuntimeError", {xName, yName, "findChipName"},
               <<Len(x.a), Len(y.a)>>, <<>>)
    ELSE IF camera = None
    THEN RuntimeError({"No camera defined", "findChipName"})
    ELSE Passed

CoordinateChecks(xName, yName, x, y, camera) ==
    IF x.type # "ndarray" \/ y.type # "ndarray"
    THEN RuntimeError({"numpy arrays", xName, yName, "findChipName"})
    ELSE IF Len(x.a) # Len(y.a)
    THEN Raise("RuntimeError", {xName, yName, "findChipName"},
               <<Len(x.a), Len(y.a)>>, <<>>)
    ELSE IF camera = None
    THEN RuntimeError({"No camera defined", "findChipName"})
    ELSE Passed

\* the checks on the epoch and the ObservationMetaData
MetadataChecks_MjdUnchecked(obs_md, epoch) ==
    IF epoch = None THEN RuntimeError({"epoch", "findChipName"})
    ELSE IF ~obs_md.given THEN RuntimeError({"ObservationMetaData", "findChipName"})
    ELSE IF obs_md.rotSkyPos = None
    THEN RuntimeError({"ObservationMetaData", "rotSkyPos", "findChipName"})
    ELSE Passed

MetadataChecks(obs_md, epoch) ==
    IF epoch = None THEN RuntimeError({"epoch", "findChipName"})
    ELSE IF ~obs_md.given THEN RuntimeError({"ObservationMetaData", "findChipName"})
    ELSE IF obs_md.mjd = None
    THEN RuntimeError({"ObservationMetaData", "mjd", "findChipName"})
    ELSE IF obs_md.rotSkyPos = None
    THEN RuntimeError({"ObservationMetaData", "rotSkyPos", "findChipName"})
    ELSE Passed

\* the name of the chip each point falls on
ChipNames(x, y, camera) == [i \in 1..Len(x) |-> <<"chipName", camera, x[i], y[i]>>]

findChipNameFromPupilCoords(xPupils, yPupils, camera) ==
    LET checked == CoordinateChecks("xPupils", "yPupils", xPupils, yPupils, camera)
    IN IF checked.kind = "raise" THEN checked
       ELSE Return(ChipNames(xPupils.a, yPupils.a, camera), <<>>)

\* the pupil coordinates of (ra, dec), both in radians
PupilCoords(ra, dec, obs_md, epoch) ==
    [x |-> [i \in 1..Len(ra) |-> <<"xPupil", ra[i], dec[i], obs_md.mjd,
                                   obs_md.rotSkyPos, epoch>>],
     y |-> [i \in 1..Len(ra) |-> <<"yPupil", ra[i], dec[i], obs_md.mjd,
                                   obs_md.rotSkyPos, epoch>>]]

\* _findChipNameFromRaDec: ra and dec in radians
private_findChipNameFromRaDec(ra, dec, obs_md, epoch, camera) ==
    LET checked == CoordinateChecks("RAs", "Decs", ra, dec, camera)
        meta    == MetadataChecks(obs_md, epoch)
        pupil   == PupilCoords(ra.a, dec.a, obs_md, epoch)
    IN IF checked.kind = "raise" THEN checked
       ELSE IF meta.kind = "raise" THEN meta
       ELSE Return(ChipNames(pupil.x, pupil.y, camera), <<>>)

\* numpy.radians of an array, element by element
Radians(x) == [x EXCEPT !.a = [i \in 1..Len(x.a) |-> <<"radians", x.a[i]>>]]

\* findChipNameFromRaDec: ra and dec in degrees
findChipNameFromRaDec(ra, dec, obs_md, epoch, camera) ==
    LET checked == CoordinateChecks("RAs", "Decs", ra, dec, camera)
    IN IF checked.kind = "raise" THEN checked
       ELSE private_findChipNameFromRaDec(Radians(ra), Radians(dec), obs_md,
                                          epoch, camera)

\* the coordinate arguments of the calls: arrays and lists of every length,
\* each with elements of its own
CoordinateArgs(base) ==
    UNION { { NdArray([i \in 1..n |-> Num(base + i)]),
              PyList([i \in 1..n |-> Num(base + i)]) } : n \in 0..MaxLen }

Cameras == { None, <<"camera">> }

ObsArgs ==
    { NoObs } \cup { Obs(m, r) : m \in {None, Num(42351)}, r \in {None, Num(35)} }

InitChip ==
    /\ site = Site
    /\ obs_metadata = [mjd |-> Num(57000), metadata |-> Pointing]
    /\ db_obj = [epoch |-> Num(2000)]
    /\ columns = Catalog(<< >>)
    /\ call = [op |-> "none"]
    /\ after = << >>
    /\ palLog = << >>
    /\ result = Idle

Call_findChipNameFromPupilCoords ==
    /\ call.op = "none"
    /\ \E x \in CoordinateArgs(100), y \in CoordinateArgs(200), camera \in Cameras :
         LET args == [xPupils |-> x, yPupils |-> y, camera |-> camera]
             arrs == [xPupils |-> x, yPupils |-> y]
         IN Finish("findChipNameFromPupilCoords", args, arrs, arrs,
                   findChipNameFromPupilCoords(x, y, camera))

Call_findChipNameFromRaDec ==
    /\ call.op = "none"
    /\ \E x \in CoordinateArgs(100), y \in CoordinateArgs(200), camera \in Cameras,
          obs_md \in ObsArgs, epoch \in {None, Num(2000)} :
         LET args == [ra |-> x, dec |-> y, obs_metadata |-> obs_md,
                      epoch |-> epoch, camera |-> camera]
             arrs == [ra |-> x, dec |-> y]
         IN Finish("findChipNameFromRaDec", args, arrs, arrs,
                   findChipNameFromRaDec(x, y, obs_md, epoch, camera))

Call_private_findChipNameFromRaDec ==
    /\ call.op = "none"
    /\ \E x \in CoordinateArgs(100), y \in CoordinateArgs(200), camera \in Cameras,
          obs_md \in ObsArgs, epoch \in {None, Num(2000)} :
         LET args == [ra |-> x, dec |-> y, obs_metadata |-> obs_md,
                      epoch |-> epoch, camera |-> camera]
             arrs == [ra |-> x, dec |-> y]
         IN Finish("_findChipNameFromRaDec", args, arrs, arrs,
                   private_findChipNameFromRaDec(x, y, obs_md, epoch, camera))

NextChip ==
    \/ Call_findChipNameFromPupilCoords
    \/ Call_findChipNameFromRaDec
    \/ Call_private_findChipNameFromRaDec

SpecChip == InitChip /\ [][NextChip]_vars

(* ------------- the motion of the stars: a catalog of cases -------------- *)

\* rows for the tests on the motion of a star: at rest; one component just
\* over pm_tol, of either sign; every component exactly at pm_tol; a parallax
\* at, just below and above 0.00045 arcsec; a negative parallax
MotionProfiles ==
    { <<0, 0, 0, 0>>, <<11, 0, 0, 0>>, <<0, 0 - 11, 0, 0>>, <<0, 0, 11, 0>>,
      <<0, 0, 0, 0 - 11>>, <<10, 0 - 10, 10, 0 - 10>>,
      <<20, 30, 4500000, 50>>, <<20, 30, 4499999, 50>>,
      <<0 - 20, 0, 0 - 7, 0>>, <<20, 30, 5000000, 50>> }

MotionCatalogs ==
    UNION { { Catalog(ps) : ps \in [1..n -> MotionProfiles] } : n \in 0..MaxLen }

\* an object with an epoch and a dated observation
InitMotion ==
    /\ site = Site
    /\ obs_metadata = [mjd |-> Num(57000), metadata |-> Pointing]
    /\ db_obj = [epoch |-> Num(2000)]
    /\ columns \in MotionCatalogs
    /\ call = [op |-> "none"]
    /\ after = << >>
    /\ palLog = << >>
    /\ result = Idle

NextMotion ==
    \/ Call_applyMeanApparentPlace
    \/ Call_applyProperMotion

SpecMotion == InitMotion /\ [][NextMotion]_vars

(* ------------------------------ the claims ----------------------------- *)

\* the result is an exception whose message spells out the name p
RaisesNaming(p) == result.kind = "raise" /\ p \in result.words

\* the arrays of a direct call that differ in length from ra; an optional
\* array counts when the caller hands it in
OffendingArrays ==
    IF call.op = "applyMeanApparentPlace"
    THEN { p \in {"dec"} : Len(call.args[p]) # Len(call.args.ra) }
         \cup { p \in {"pm_ra", "pm_dec", "parallax", "v_rad"} :
                  /\ call.args[p].given
                  /\ Len(call.args[p].a) # Len(call.args.ra) }
    ELSE IF call.op = "applyProperMotion"
    THEN { p \in {"dec", "pm_ra", "pm_dec", "parallax", "v_rad"} :
             Len(call.args[p]) # Len(call.args.ra) }
    ELSE IF call.op = "applyMeanObservedPlace"
    THEN { p \in {"dec"} : Len(call.args[p]) # Len(call.args.ra) }
    ELSE {}

\* C1: applyMeanApparentPlace called with len(ra) != len(dec) raises a
\* ValueError whose message carries both lengths, before any library call
\* and without a result; called with len(ra) = len(dec) it never raises
\* that error.
C1_LengthMismatchRaisesValueError ==
    call.op = "applyMeanApparentPlace" =>
        IF Len(call.args.ra) # Len(call.args.dec)
        THEN /\ result.kind = "raise"
             /\ result.type = "ValueError"
             /\ result.nums = <<Len(call.args.ra), Len(call.args.dec)>>
             /\ {"ra", "dec"} \subseteq result.words
             /\ palLog = << >>
        ELSE ~(result.kind = "raise" /\ result.type = "ValueError")

\* C1 witness: a call with a dec array longer than ra has raised
C1_Witness ==
    /\ call.op = "applyMeanApparentPlace"
    /\ Len(call.args.dec) > Len(call.args.ra)
    /\ result.kind = "raise"

\* C2, as claimed: in applyMeanApparentPlace, applyProperMotion and
\* applyMeanObservedPlace every supplied array whose length differs from
\* len(ra) makes the call raise an error that names that parameter.
C2_AnyLengthMismatchRaisesNamingParameter ==
    \A p \in OffendingArrays : RaisesNaming(p)

\* C7, as claimed: the end epoch applyProperMotion hands to pal.pm is the
\* Julian epoch of its MJD argument, whatever self.obs_metadata holds.
C7_EndEpochFromMJDArgument ==
    call.op = "applyProperMotion" =>
        /\ palLog # << >>
        /\ palLog[1] = <<"epj", call.args.MJD>>
        /\ \A k \in 2..Len(palLog) :
              palLog[k][1] = "pm" =>
                  palLog[k][9] = PalRet(<<"epj", call.args.MJD>>, 0)

\* C8, as claimed: a call of a transform function leaves every input array
\* as it was handed in.
C8_InputArraysUnchanged ==
    call.op \in {"applyPrecession", "applyProperMotion", "applyMeanApparentPlace",
                 "applyMeanObservedPlace", "correctCoordinates",
                 "get_skyToFocalPlane", "equatorialToGalactic",
                 "galacticToEquatorial"}
        => after = call.arrays

\* the metadata a getter needs and does not find: the epoch of db_obj, the
\* mjd of obs_metadata and, for get_skyToFocalPlane, the rotation angle
MissingFields ==
    { f \in {"epoch"} : db_obj.epoch = None }
      \cup { f \in {"mjd"} : obs_metadata.mjd = None }
      \cup { f \in {"rotSkyPos"} :
               /\ call.op = "get_skyToFocalPlane"
               /\ \/ "Opsim_rotskypos" \notin DOMAIN obs_metadata.metadata
                  \/ obs_metadata.metadata["Opsim_rotskypos"] = None }

\* the names a message may use for a field
FieldNames(f) == IF f = "rotSkyPos" THEN {"rotSkyPos", "Opsim_rotskypos"} ELSE {f}

\* C3, as claimed: correctCoordinates and get_skyToFocalPlane raise an error
\* naming a missing field whenever epoch, mjd or (get_skyToFocalPlane only)
\* rotSkyPos is missing.
C3_MissingMetadataRaisesNamingField ==
    (call.op \in {"correctCoordinates", "get_skyToFocalPlane"}
       /\ MissingFields # {})
        => \E f \in MissingFields : \E w \in FieldNames(f) : RaisesNaming(w)

\* the per-element calls of applyMeanApparentPlace among the library calls
\* of the last call
ElementCalls == SelectSeq(palLog, LAMBDA c : c[1] \in {"mapqk", "mapqkz"})

\* row k of the catalog has a proper motion, parallax or radial velocity
\* above 1.0e-9
RowMoves(k) ==
    \E name \in {"properMotionRa", "properMotionDec", "parallax", "radialVelocity"} :
        \/ columns[name][k][2] > pm_tol
        \/ 0 - columns[name][k][2] > pm_tol

\* C9: the AstrometryGalaxies getters correct every row with mapqkz, whatever
\* the motion columns hold; the AstrometryStars getters hand properMotionRa,
\* properMotionDec, parallax and radialVelocity, in that order, to the
\* correction as pm_ra, pm_dec, parallax and v_rad.
C9_GalaxiesIgnoreMotionStarsPassColumns ==
    LET prms == PalRet(palLog[1], 0)
        n    == Len(columns.raJ2000)
    IN /\ call.op \in {"AstrometryGalaxies.get_trimCoordinates",
                       "AstrometryGalaxies.get_observedCoordinates"} =>
            /\ result.kind = "return" => Len(ElementCalls) = n
            /\ \A k \in 1..Len(ElementCalls) :
                  ElementCalls[k] =
                      <<"mapqkz", columns.raJ2000[k], columns.decJ2000[k], prms>>
       /\ call.op \in {"AstrometryStars.get_trimCoordinates",
                       "AstrometryStars.get_observedCoordinates"} =>
            /\ result.kind = "return" => Len(ElementCalls) = n
            /\ \A k \in 1..Len(ElementCalls) :
                  ElementCalls[k] =
                      IF RowMoves(k)
                      THEN <<"mapqk", columns.raJ2000[k], columns.decJ2000[k],
                             columns.properMotionRa[k], columns.properMotionDec[k],
                             columns.parallax[k], columns.radialVelocity[k], prms>>
                      ELSE <<"mapqkz", columns.raJ2000[k], columns.decJ2000[k], prms>>

\* C9 witness: a Galaxies getter has returned for a catalog with a moving
\* row
C9_Witness ==
    /\ call.op = "AstrometryGalaxies.get_observedCoordinates"
    /\ result.kind = "return"
    /\ \E k \in 1..Len(columns.raJ2000) : RowMoves(k)

\* C10: applyMeanObservedPlace returns (raOut, decOut), or with altAzHr
\* (raOut, decOut, alt, az); each array is as long as ra; raOut[i] and
\* decOut[i] are the right ascension and declination pal.aopqk returns for
\* (ra[i], dec[i]); alt[i] and az[i] are what pal.de2h returns for that
\* call's hour angle, decOut[i] and the site latitude.
C10_ObservedPlaceResult ==
    call.op = "applyMeanObservedPlace" =>
        LET a       == call.args
            obsPrms == PalRet(palLog[1], 0)
            q(i)    == <<"aopqk", a.ra[i], a.dec[i], obsPrms>>
            h(i)    == <<"de2h", PalRet(q(i), 2), PalRet(q(i), 3), site.latitude>>
        IN /\ Len(a.dec) >= Len(a.ra) => result.kind = "return"
           /\ result.kind = "return" =>
                /\ Len(result.val) = IF a.altAzHr THEN 4 ELSE 2
                /\ \A j \in 1..Len(result.val) : Len(result.val[j]) = Len(a.ra)
                /\ \A i \in 1..Len(a.ra) :
                      /\ result.val[1][i] = PalRet(q(i), 4)
                      /\ result.val[2][i] = PalRet(q(i), 3)
                      /\ a.altAzHr =>
                            /\ result.val[3][i] = PalRet(h(i), 1)
                            /\ result.val[4][i] = PalRet(h(i), 0)

\* C10 witness: a call with altAzHr on a catalog of two rows or more has
\* returned
C10_Witness ==
    /\ call.op = "applyMeanObservedPlace"
    /\ call.args.altAzHr
    /\ Len(call.args.ra) >= 2
    /\ result.kind = "return"

\* the two coordinate arguments of the last chip-name call
ChipX == IF call.op = "findChipNameFromPupilCoords" THEN call.args.xPupils
         ELSE call.args.ra

ChipY == IF call.op = "findChipNameFromPupilCoords" THEN call.args.yPupils
         ELSE call.args.dec

ChipCalls ==
    {"findChipNameFromPupilCoords", "findChipNameFromRaDec", "_findChipNameFromRaDec"}

C5_LengthMismatchNamesBothArrays ==
    (call.op \in ChipCalls
       /\ ChipX.type = "ndarray" /\ ChipY.type = "ndarray"
       /\ Len(ChipX.a) # Len(ChipY.a) /\ call.args.camera # None)
        => /\ result.kind = "raise"
           /\ result.type = "RuntimeError"
           /\ IF call.op = "findChipNameFromPupilCoords"
              THEN {"xPupils", "yPupils"} \subseteq result.words
              ELSE {"RAs", "Decs"} \subseteq result.words

\* C5 witness: a RaDec call with fewer RAs than Decs, a camera and valid
\* metadata has raised
C5_Witness ==
    /\ call.op = "findChipNameFromRaDec"
    /\ ChipX.type = "ndarray" /\ ChipY.type = "ndarray"
    /\ Len(ChipX.a) < Len(ChipY.a)
    /\ call.args.camera # None
    /\ call.args.epoch # None
    /\ call.args.obs_metadata.given
    /\ call.args.obs_metadata.mjd # None
    /\ call.args.obs_metadata.rotSkyPos # None
    /\ result.kind = "raise"

\* what a RaDec call lacks: the epoch, the ObservationMetaData, its mjd or
\* its rotSkyPos
MissingItems ==
    { f \in {"epoch"} : call.args.epoch = None }
      \cup { f \in {"ObservationMetaData"} : ~call.args.obs_metadata.given }
      \cup { f \in {"mjd"} :
               call.args.obs_metadata.given /\ call.args.obs_metadata.mjd = None }
      \cup { f \in {"rotSkyPos"} :
               /\ call.args.obs_metadata.given
               /\ call.args.obs_metadata.rotSkyPos = None }

\* C6: findChipNameFromRaDec and _findChipNameFromRaDec, given numpy arrays
\* of one length and a camera, raise a RuntimeError naming 'findChipName' and
\* the one item that is missing (epoch, ObservationMetaData, mjd or
\* rotSkyPos); the two functions raise the same error for the same arguments.
C6_MissingItemNamed ==
    (call.op \in {"findChipNameFromRaDec", "_findChipNameFromRaDec"}
       /\ ChipX.type = "ndarray" /\ ChipY.type = "ndarray"
       /\ Len(ChipX.a) = Len(ChipY.a) /\ call.args.camera # None)
        => /\ \A f \in MissingItems :
                MissingItems = {f} =>
                    /\ result.kind = "raise"
                    /\ result.type = "RuntimeError"
                    /\ {"findChipName", f} \subseteq result.words
           /\ MissingItems # {} =>
                LET a == call.args
                    other ==
                      IF call.op = "findChipNameFromRaDec"
                      THEN private_findChipNameFromRaDec(a.ra, a.dec,
                               a.obs_metadata, a.epoch, a.camera)
                      ELSE findChipNameFromRaDec(a.ra, a.dec, a.obs_metadata,
                               a.epoch, a.camera)
                IN /\ result.kind = "raise"
                   /\ other.kind = "raise"
                   /\ other.type = result.type
                   /\ other.words = result.words

\* C6 witness: a RaDec call whose ObservationMetaData has no mjd, and which
\* lacks nothing else, has raised
C6_Witness ==
    /\ call.op = "findChipNameFromRaDec"
    /\ ChipX.type = "ndarray" /\ ChipY.type = "ndarray"
    /\ Len(ChipX.a) = Len(ChipY.a)
    /\ Len(ChipX.a) > 0
    /\ call.args.camera # None
    /\ MissingItems = {"mjd"}
    /\ result.kind = "raise"

\* the getters, all of which call correctCoordinates with inDegrees left at
\* its default
Getters ==
    {"AstrometryGalaxies.get_trimCoordinates",
     "AstrometryGalaxies.get_observedCoordinates",
     "AstrometryStars.get_trimCoordinates",
     "AstrometryStars.get_observedCoordinates"}

\* inDegrees and includeRefraction of the last call of correctCoordinates,
\* direct or through a getter
CalledInDegrees == IF call.op \in Getters THEN TRUE ELSE call.args.inDegrees

CalledWithRefraction ==
    IF call.op = "correctCoordinates" THEN call.args.includeRefraction
    ELSE call.op \in {"AstrometryGalaxies.get_observedCoordinates",
                      "AstrometryStars.get_observedCoordinates"}

\* C11: correctCoordinates first applies applyMeanApparentPlace to
\* raJ2000/decJ2000 with Epoch0 = db_obj.epoch and MJD = obs_metadata.mjd,
\* then applyMeanObservedPlace to that result with the same MJD and the
\* caller's includeRefraction; it returns [ra, dec], each times 180/pi when
\* inDegrees is True (as in every getter) and in radians when it is False.
C11_ApparentThenObservedThenDegrees ==
    call.op \in Getters \cup {"correctCoordinates"} =>
        LET n      == Len(columns.raJ2000)
            ep0    == db_obj.epoch
            mjd    == obs_metadata.mjd
            app(i) == palLog[1 + i]
            obs(i) == palLog[n + 2 + i]
            deg(x) == IF CalledInDegrees THEN <<"mul", x, "180.0/numpy.pi">> ELSE x
        IN result.kind = "return" =>
                /\ Len(palLog) = 2 * n + 2
                /\ palLog[1] = <<"mappa", ep0, mjd>>
                /\ \A i \in 1..n :
                      /\ app(i)[1] \in {"mapqk", "mapqkz"}
                      /\ app(i)[2] = columns.raJ2000[i]
                      /\ app(i)[3] = columns.decJ2000[i]
                      /\ app(i)[Len(app(i))] = PalRet(palLog[1], 0)
                /\ palLog[n + 2][1] = "aoppa"
                /\ palLog[n + 2][2] = mjd
                /\ palLog[n + 2][10] = IF CalledWithRefraction
                                       THEN site.meanPressure ELSE Num(0)
                /\ \A i \in 1..n :
                      obs(i) = <<"aopqk", PalRet(app(i), 0), PalRet(app(i), 1),
                                 PalRet(palLog[n + 2], 0)>>
                /\ Len(result.val) = 2
                /\ Len(result.val[1]) = n
                /\ Len(result.val[2]) = n
                /\ \A i \in 1..n :
                      /\ result.val[1][i] = deg(PalRet(obs(i), 4))
                      /\ result.val[2][i] = deg(PalRet(obs(i), 3))

\* C11 witness: correctCoordinates has returned radians for a catalog of two
\* rows or more, without refraction
C11_Witness ==
    /\ call.op = "correctCoordinates"
    /\ ~call.args.inDegrees
    /\ ~call.args.includeRefraction
    /\ Len(columns.raJ2000) >= 2
    /\ result.kind = "return"

\* C12: with includeRefraction False applyMeanObservedPlace hands pressure 0
\* and humidity 0 to pal.aoppa and every other argument (MJD, dut, longitude,
\* latitude, height, xPolar, yPolar, meanTemperature, wavelength, lapseRate)
\* as with includeRefraction True; get_trimCoordinates of both mixins takes
\* the path without refraction and get_observedCoordinates the one with it.
C12_RefractionOffZeroesPressureAndHumidity ==
    LET aoppa(MJD, pressure, humidity, wavelength) ==
            <<"aoppa", MJD, dut, site.longitude, site.latitude, site.height,
              site.xPolar, site.yPolar, site.meanTemperature,
              pressure, humidity, wavelength, site.lapseRate>>
        expected(MJD, refraction, wavelength) ==
            IF refraction
            THEN aoppa(MJD, site.meanPressure, site.meanHumidity, wavelength)
            ELSE aoppa(MJD, Num(0), Num(0), wavelength)
        siteCalls == { k \in 1..Len(palLog) : palLog[k][1] = "aoppa" }
    IN /\ call.op = "applyMeanObservedPlace" =>
            /\ Len(palLog) >= 1
            /\ palLog[1] = expected(call.args.MJD, call.args.includeRefraction,
                                    call.args.wavelength)
            /\ siteCalls = {1}
       /\ (call.op \in Getters /\ result.kind = "return") =>
            /\ Cardinality(siteCalls) = 1
            /\ \A k \in siteCalls :
                  palLog[k] = expected(obs_metadata.mjd,
                      call.op \in {"AstrometryGalaxies.get_observedCoordinates",
                                   "AstrometryStars.get_observedCoordinates"},
                      DefaultWavelength)

\* C12 witness: applyMeanObservedPlace has been called without refraction at
\* a site whose pressure and humidity are not zero
C12_Witness ==
    /\ call.op = "applyMeanObservedPlace"
    /\ ~call.args.includeRefraction
    /\ site.meanPressure # Num(0)
    /\ site.meanHumidity # Num(0)
    /\ Len(call.args.ra) >= 1
    /\ result.kind = "return"

\* C13: applyMeanApparentPlace corrects element i with pal.mapqk, given
\* pm_ra[i], pm_dec[i], parallax[i] and v_rad[i], if and only if at least one
\* of their magnitudes exceeds 1.0e-9, and with pal.mapqkz otherwise; an
\* omitted array counts as zeros of length len(ra); pal.mappa is called once,
\* on (Epoch0, MJD), and its output is handed to the routine of every element.
C13_RoutineChosenPerElement ==
    (call.op = "applyMeanApparentPlace" /\ result.kind = "return") =>
        LET n            == Len(call.args.ra)
            array(name)  == IF call.args[name].given THEN call.args[name].a
                            ELSE [i \in 1..n |-> Num(0)]
            pm_ra        == array("pm_ra")
            pm_dec       == array("pm_dec")
            parallax     == array("parallax")
            v_rad        == array("v_rad")
            magnitude(x) == IF x[2] < 0 THEN 0 - x[2] ELSE x[2]
            moving(i)    == \E x \in {pm_ra[i], pm_dec[i], parallax[i], v_rad[i]} :
                               magnitude(x) > pm_tol
            prms         == PalRet(palLog[1], 0)
        IN /\ Len(palLog) = n + 1
           /\ palLog[1] = <<"mappa", call.args.Epoch0, call.args.MJD>>
           /\ \A k \in 2..(n + 1) : palLog[k][1] # "mappa"
           /\ \A i \in 1..n :
                 /\ palLog[1 + i] =
                       IF moving(i)
                       THEN <<"mapqk", call.args.ra[i], call.args.dec[i], pm_ra[i],
                              pm_dec[i], parallax[i], v_rad[i], prms>>
                       ELSE <<"mapqkz", call.args.ra[i], call.args.dec[i], prms>>
                 /\ result.val[1][i] = PalRet(palLog[1 + i], 0)
                 /\ result.val[2][i] = PalRet(palLog[1 + i], 1)

\* C13 witness: a call without pm_ra has returned after pal.mapqk for a row
\* whose only motion is a negative component, and pal.mapqkz for a row whose
\* given components are all exactly at the tolerance
C13_Witness ==
    /\ call.op = "applyMeanApparentPlace"
    /\ result.kind = "return"
    /\ ~call.args.pm_ra.given
    /\ call.args.pm_dec.given
    /\ \E i \in 1..Len(call.args.ra) :
          /\ palLog[1 + i][1] = "mapqk"
          /\ call.args.pm_dec.a[i] = Num(0 - 11)
    /\ \E j \in 1..Len(call.args.ra) :
          /\ palLog[1 + j][1] = "mapqkz"
          /\ call.args.pm_dec.a[j] = Num(0 - pm_tol)

\* the entries of the log that are calls of pal.pm
PmCalls == { k \in 1..Len(palLog) : palLog[k][1] = "pm" }

\* the row a call of pal.pm is for
PmRow(k) == CHOOSE i \in 1..Len(call.args.ra) : call.args.ra[i] = palLog[k][2]

\* C14: every parallax applyProperMotion hands to pal.pm is at least 0.00045
\* arcsec: an input below 0.00045, zero and negative ones included, goes in
\* as exactly 0.00045, and one at or above 0.00045 goes in unchanged.
C14_ParallaxFloorAtPm ==
    call.op = "applyProperMotion" =>
        \A k \in PmCalls :
            LET given == call.args.parallax[PmRow(k)]
            IN /\ palLog[k][6][2] >= ParallaxFloor
               /\ given[2] < ParallaxFloor => palLog[k][6] = Num(ParallaxFloor)
               /\ given[2] >= ParallaxFloor => palLog[k][6] = given

\* C14 witness: pal.pm has been called for a row with a parallax just below
\* 0.00045 arcsec and for a row with a parallax of exactly 0.00045 arcsec
C14_Witness ==
    /\ call.op = "applyProperMotion"
    /\ result.kind = "return"
    /\ \E k \in PmCalls : call.args.parallax[PmRow(k)] = Num(ParallaxFloor - 1)
    /\ \E k \in PmCalls : call.args.parallax[PmRow(k)] = Num(ParallaxFloor)

====
